---- MODULE Spec2Model ----
(***************************************************************************)
(* A model of the CXRS frame sampler (src/src/frame_sampler.py) and of the *)
(* UDA loader it builds its datasets with (src/src/data.py).               *)
(*                                                                         *)
(* The specifications share the variables:                                 *)
(*   SpecSub    subsample_dataset applied to bounded datasets              *)
(*   SpecBuild  UDALoader.get_radial_profile / get_volume_data             *)
(*   Spec       the batch driver: main, process_shot, load_dataset,        *)
(*              write_dataset, over one or more batch runs                 *)
(*   SpecDash   the dashboard (src/src/main.py): labels, navigation and    *)
(*              the rating export                                          *)
(*   FairSpec   Spec with weak fairness of the steps of main's loop        *)
(***************************************************************************)
EXTENDS Integers, Sequences, FiniteSets, TLC

VARIABLES
    \* ---- subsample_dataset in isolation (SpecSub)
    sub_in,      \* the call's arguments and the generator state before it
    sub_out,     \* the call's outcome; phase "none" before the call
    \* ---- the labeled dataset builder (SpecBuild)
    sig,         \* what the UDA client returns for the signal being loaded
    built,       \* the builder's outcome; phase "none" before the call
    \* ---- the batch driver (Spec)
    source,      \* the remote database: shot -> response (fixed per behaviour)
    conf,        \* the command line every run of the behaviour is given: shot_min,
                 \* shot_max, --sample-method, --num-samples, --seed
    pc,          \* "idle" (no process), "running" (in main's loop), "done"
    args,        \* the running process's seed, --output-path, --overwrite
    cursor,      \* the loop variable shot_id of main's for loop
    rng,         \* the state of numpy's process-wide generator
    stores,      \* output_path -> the shots.zarr store there, or Absent
    base,        \* the store this run found at its output_path
    attempted,   \* the shots process_shot was called with in this run, in order
    outcome,     \* per attempted shot of this run, what process_shot did
    lastWrite,   \* the last write_dataset call: what it found and did
    finished,    \* the completed runs, in order
    \* ---- the dashboard, CXRSValidationApp (SpecDash)
    frames,        \* self.frames: the stacked (shot_id, time, major_radius)
    frame_indices, \* self.frame_indices, shuffled (0-based entries)
    current_index, \* self.current_index
    frame,         \* self.shot_id, self.time_point, self.radial_point
    group_value,   \* the value of each RadioBoxGroup of self.groups
    focus_index,   \* pn.state.cache["focus_index"]
    ratings,       \* self.ratings
    csv,           \* cxrs_validation_ratings.csv
    lastNav        \* the last navigation: what the reviewer saw and had selected

vars == <<sub_in, sub_out, sig, built, source, conf, pc, args, cursor, rng,
          stores, base, attempted, outcome, lastWrite, finished,
          frames, frame_indices, current_index, frame, group_value, focus_index,
          ratings, csv, lastNav>>

subVars == <<sub_in, sub_out>>
buildVars == <<sig, built>>
batchVars == <<source, conf, pc, args, cursor, rng, stores, base, attempted,
               outcome, lastWrite, finished>>
dashVars == <<frames, frame_indices, current_index, frame, group_value, focus_index,
              ratings, csv, lastNav>>

----------------------------------------------------------------------------
(* Bounds of the model.                                                    *)

\* the shared time base of load_dataset, scaled to integers
MinTime == 0
MaxTime == 3
Dt == 1
\* SpecBuild: the longest axis of a fetched array
MaxDim == 2
\* SpecSub: the longest time axis and the most time points that carry a gap
SubMaxT == 10
SubMaxGaps == 1
\* the largest num_samples
MaxSamples == 5
\* Spec: the shot numbers, the batch runs and the largest num_samples
MaxShot == 2
MaxRuns == 2
MaxBatchSamples == 2
\* SpecDash: the shots of the opened store and the navigation actions
MaxDashShots == 2
MaxNav == 3

----------------------------------------------------------------------------
(* Arrays with missing values.                                             *)

\* numpy's nan; every real sample of the model is >= 0
NaN == -1

Range(s) == {s[i] : i \in DOMAIN s}

\* DataArray.count over the non-time dimensions: the non-missing cells of
\* one time slice
Count(slice) == Cardinality({c \in DOMAIN slice : slice[c] # NaN})

\* np.arange(min_time, max_time + dt, dt)
CeilDiv(a, b) == (a + b - 1) \div b
TimeBaseLen == CeilDiv((MaxTime + Dt) - MinTime, Dt)
TimeBase == [i \in 1..TimeBaseLen |-> MinTime + (i - 1) * Dt]

\* the time axis of the first n points of a regular grid
TimeGrid(n) == [i \in 1..n |-> MinTime + (i - 1) * Dt]

----------------------------------------------------------------------------
(* numpy's process-wide generator, reduced to a 4-bit congruential one.    *)

RngStates == 0..15
\* the states an unseeded generator is taken to start from
Entropy == {3, 12}
RandSeed(seed) == seed % 16
RandNext(s) == (s * 5 + 3) % 16
\* rk_interval(max): a draw in 0..max
RandInterval(s, max) == s % (max + 1)

Swap(x, i, j) == [x EXCEPT ![i] = x[j], ![j] = x[i]]

\* numpy's shuffle: for i in reversed(range(1, n)): j = interval(i); swap.
\* Indices here are 1-based: position i (2..n) swaps with a draw in 1..i.
RECURSIVE Shuffle(_, _, _)
Shuffle(x, i, s) ==
    IF i < 2 THEN [perm |-> x, rng |-> s]
    ELSE LET s1 == RandNext(s)
             j == 1 + RandInterval(s1, i - 1)
         IN Shuffle(Swap(x, i, j), i - 1, s1)

\* choice with replace=True: never raises, and draws each entry on its own
RECURSIVE Draws(_, _, _)
Draws(a, size, s) ==
    IF size = 0 THEN [picked |-> <<>>, rng |-> s]
    ELSE LET s1 == RandNext(s)
             rest == Draws(a, size - 1, s1)
         IN [picked |-> <<a[1 + RandInterval(s1, Len(a) - 1)]>> \o rest.picked,
             rng |-> rest.rng]

ChoiceWithReplacement(a, size, s) ==
    IF Len(a) = 0
    THEN [ok |-> FALSE, picked |-> <<>>, rng |-> s]
    ELSE [ok |-> TRUE, picked |-> Draws(a, size, s).picked,
          rng |-> Draws(a, size, s).rng]

\* np.random.choice(a, size, replace=False): ValueError when size exceeds
\* the population, else the first size entries of a permutation of a
Choice(a, size, s) ==
    IF size > Len(a)
    THEN [ok |-> FALSE, picked |-> <<>>, rng |-> s]
    ELSE LET sh == Shuffle([i \in 1..Len(a) |-> i], Len(a), s)
         IN [ok |-> TRUE,
             picked |-> [k \in 1..size |-> a[sh.perm[k]]],
             rng |-> sh.rng]

----------------------------------------------------------------------------
(* subsample_dataset.  A dataset is [time, data]: data[v][i] is variable   *)
(* v's slice (its cells over the other dimensions) at time[i].             *)

VolumeVars == {"ss_fits", "ss_counts"}

\* Dataset.dropna(dim="time", how="all"): keeps a time label when the
\* non-missing count summed over all variables is positive
RECURSIVE CountOver(_, _, _)
CountOver(ds, i, V) ==
    IF V = {} THEN 0
    ELSE LET v == CHOOSE w \in V : TRUE
         IN Count(ds.data[v][i]) + CountOver(ds, i, V \ {v})

\* how="any": keeps a time label only when no cell of any variable is missing
DropnaAnyKept(ds) ==
    {i \in DOMAIN ds.time :
        \A v \in DOMAIN ds.data : Count(ds.data[v][i]) = Len(ds.data[v][i])}

DropnaAllKept(ds) ==
    {i \in DOMAIN ds.time : CountOver(ds, i, DOMAIN ds.data) > 0}

\* an index set as the ascending sequence of its members
RECURSIVE SortedSeq(_)
SortedSeq(S) ==
    IF S = {} THEN <<>>
    ELSE LET m == CHOOSE x \in S : \A y \in S : x <= y
         IN <<m>> \o SortedSeq(S \ {m})

\* dataset.dropna(dim="time", how="all").time
CandidateTimes(ds) ==
    LET kept == SortedSeq(DropnaAllKept(ds))
    IN [k \in 1..Len(kept) |-> ds.time[kept[k]]]

\* time[::step]
Stride(time, step) ==
    [k \in 1..CeilDiv(Len(time), step) |-> time[1 + (k - 1) * step]]

\* a stride that rounds the quotient up instead of down
GridStepCeil(len, num_samples) ==
    LET q == CeilDiv(len, num_samples) IN IF q > 1 THEN q ELSE 1

GridStep(len, num_samples) ==
    LET q == len \div num_samples IN IF q > 1 THEN q ELSE 1

IndexOf(time, label) == CHOOSE i \in DOMAIN time : time[i] = label

\* dataset.sel(time=labels): the slices at the labels, in the labels' order
Sel(ds, labels) ==
    [ds EXCEPT
        !.time = labels,
        !.data = [v \in DOMAIN ds.data |->
                    [k \in 1..Len(labels) |->
                        ds.data[v][IndexOf(ds.time, labels[k])]]]]

\* what a call that raised hands back: nothing
NoDataset == <<>>

\* [ok, ds, rng]: ok is FALSE when the call raised (np.random.choice's
\* ValueError); rng is the generator state after the call
SelChosen(ds, c) ==
    IF c.ok THEN [ok |-> TRUE, ds |-> Sel(ds, c.picked), rng |-> c.rng]
    ELSE [ok |-> FALSE, ds |-> NoDataset, rng |-> c.rng]

SubsampleFrom(ds, time, method, num_samples, s) ==
    IF method = "random"
    THEN SelChosen(ds, Choice(time, num_samples, s))
    ELSE [ok |-> TRUE,
          ds |-> Sel(ds, Stride(time, GridStep(Len(time), num_samples))),
          rng |-> s]

subsample_dataset(ds, method, num_samples, s) ==
    SubsampleFrom(ds, CandidateTimes(ds), method, num_samples, s)

----------------------------------------------------------------------------
(* UDALoader (data.py).  An array of the UDA client is [shape, cells]:     *)
(* cells[i] is the flat (row-major) slice at index i of the first axis.    *)
(* A DataArray is [dims, coords, values]; a built dataset maps each        *)
(* variable name to its DataArray.                                         *)

RECURSIVE Product(_)
Product(s) == IF s = <<>> THEN 1 ELSE Head(s) * Product(Tail(s))

\* xr.DataArray(array, dims=..., coords=...): raises unless there is one
\* dimension name per axis and every coordinate is as long as its axis
DataArray(array, dims, coords) ==
    IF /\ Len(array.shape) = Len(dims)
       /\ \A k \in DOMAIN dims : Len(coords[dims[k]]) = array.shape[k]
    THEN [ok |-> TRUE,
          arr |-> [dims |-> dims, coords |-> coords, values |-> array.cells]]
    ELSE [ok |-> FALSE, arr |-> <<>>]

ProfileDims == <<"time", "major_radius">>
VolumeDims == <<"time", "major_radius", "wavelength">>

\* xr.Dataset({f"{name}_data": data, f"{name}_error": error})
Dataset2(name, data, error) ==
    [k \in {name \o "_data", name \o "_error"} |->
        IF k = name \o "_data" THEN data ELSE error]

\* a builder that wraps the value array a second time as the error
get_radial_profile_values_twice(name, signal) ==
    LET data == DataArray(signal.data, ProfileDims,
                          [d \in Range(ProfileDims) |->
                              IF d = "time" THEN signal.dims[1]
                                            ELSE signal.dims[2]])
    IN IF ~data.ok THEN [ok |-> FALSE, ds |-> <<>>]
       ELSE [ok |-> TRUE, ds |-> Dataset2(name, data.arr, data.arr)]

\* [ok, ds]: ok is FALSE when a DataArray constructor raised
get_radial_profile(name, signal) ==
    LET data == DataArray(signal.data, ProfileDims,
                          [d \in Range(ProfileDims) |->
                              IF d = "time" THEN signal.dims[1]
                                            ELSE signal.dims[2]])
    IN IF ~data.ok THEN [ok |-> FALSE, ds |-> <<>>]
       ELSE LET error == DataArray(signal.errors, ProfileDims, data.arr.coords)
            IN IF ~error.ok THEN [ok |-> FALSE, ds |-> <<>>]
               ELSE [ok |-> TRUE, ds |-> Dataset2(name, data.arr, error.arr)]

\* wavelength is the first row of the wavelength signal's data
get_volume_data(name, signal, wavelength) ==
    LET data == DataArray(signal.data, VolumeDims,
                          [d \in Range(VolumeDims) |->
                              CASE d = "time" -> signal.dims[1]
                                [] d = "major_radius" -> signal.dims[2]
                                [] OTHER -> wavelength.data[1]])
    IN IF ~data.ok THEN [ok |-> FALSE, ds |-> <<>>]
       ELSE LET error == DataArray(signal.errors, VolumeDims, data.arr.coords)
            IN IF ~error.ok THEN [ok |-> FALSE, ds |-> <<>>]
               ELSE [ok |-> TRUE, ds |-> Dataset2(name, data.arr, error.arr)]

----------------------------------------------------------------------------
(* load_dataset.  Of the nine signals it loads, the model keeps one        *)
(* profile (temperature) and two volumes (ss_fits, ss_counts); the others  *)
(* go through the same calls.  A merged dataset is                         *)
(* [time, coords, dims, data]: coords maps the other dimensions to their   *)
(* coordinate vectors, dims maps a variable to its dimension names and     *)
(* data[v][i] is v's flat slice at time[i].                                *)

ProfileSignals == {"temperature"}
VolumeSignals == {"ss_fits", "ss_counts"}

\* DataArray.interp(time=time_base) at one grid point: linear between the
\* two samples around t, missing outside the sampled range
InterpSlice(times, values, t) ==
    IF t < times[1] \/ t > times[Len(times)]
    THEN [c \in DOMAIN values[1] |-> NaN]
    ELSE LET i == CHOOSE j \in DOMAIN times :
                     /\ times[j] <= t
                     /\ (j = Len(times) \/ t < times[j + 1])
         IN IF times[i] = t THEN values[i]
            ELSE [c \in DOMAIN values[i] |->
                    values[i][c]
                    + ((values[i + 1][c] - values[i][c]) * (t - times[i]))
                       \div (times[i + 1] - times[i])]

\* profile.interp(time=time_base) on a built dataset
interp(ds, time_base) ==
    [v \in DOMAIN ds |->
        [ds[v] EXCEPT
            !.coords = [@ EXCEPT !["time"] = time_base],
            !.values = [j \in DOMAIN time_base |->
                          InterpSlice(ds[v].coords["time"], ds[v].values,
                                      time_base[j])]]]

\* xr.merge of built datasets that are all on one time axis and agree on
\* the coordinates they share
merge(S) ==
    LET names == UNION {DOMAIN d : d \in S}
        arr(n) == (CHOOSE d \in S : n \in DOMAIN d)[n]
        any == arr(CHOOSE n \in names : TRUE)
        cdims == UNION {DOMAIN arr(n).coords : n \in names} \ {"time"}
    IN [time |-> any.coords["time"],
        coords |-> [d \in cdims |->
                      arr(CHOOSE n \in names : d \in DOMAIN arr(n).coords).coords[d]],
        dims |-> [n \in names |-> arr(n).dims],
        data |-> [n \in names |-> arr(n).values]]

\* the number of cells of one time slice of variable n
Width(ds, n) ==
    Product([k \in 1..(Len(ds.dims[n]) - 1) |-> Len(ds.coords[ds.dims[n][k + 1]])])

\* a merge that joins on the time labels both datasets have
merge_inner_on_time(a, b) ==
    LET time == SortedSeq(Range(a.time) \cap Range(b.time))
        from(n) == IF n \in DOMAIN a.data THEN a ELSE b
    IN [time |-> time,
        coords |-> [d \in DOMAIN a.coords \cup DOMAIN b.coords |->
                      IF d \in DOMAIN b.coords THEN b.coords[d] ELSE a.coords[d]],
        dims |-> [n \in DOMAIN a.dims \cup DOMAIN b.dims |->
                    IF n \in DOMAIN a.dims THEN a.dims[n] ELSE b.dims[n]],
        data |-> [n \in DOMAIN a.dims \cup DOMAIN b.dims |->
                    [i \in DOMAIN time |->
                        from(n).data[n][IndexOf(from(n).time, time[i])]]]]

\* xr.merge([radial_profiles, wavelength_profiles]): an outer join on time;
\* a variable is missing at the time labels its dataset does not have
merge_on_time(a, b) ==
    LET time == SortedSeq(Range(a.time) \cup Range(b.time))
        coords == [d \in DOMAIN a.coords \cup DOMAIN b.coords |->
                      IF d \in DOMAIN b.coords THEN b.coords[d] ELSE a.coords[d]]
        both == [coords |-> coords,
                 dims |-> [n \in DOMAIN a.dims \cup DOMAIN b.dims |->
                             IF n \in DOMAIN a.dims THEN a.dims[n] ELSE b.dims[n]]]
        from(n) == IF n \in DOMAIN a.data THEN a ELSE b
    IN [time |-> time,
        coords |-> coords,
        dims |-> both.dims,
        data |-> [n \in DOMAIN both.dims |->
                    [i \in DOMAIN time |->
                        IF time[i] \in Range(from(n).time)
                        THEN from(n).data[n][IndexOf(from(n).time, time[i])]
                        ELSE [c \in 1..Width(both, n) |-> NaN]]]]

\* dataset.expand_dims({"shot_id": [shot_id]})
expand_dims(ds, shot_id) ==
    [shot_id |-> <<shot_id>>, time |-> ds.time, coords |-> ds.coords,
     dims |-> ds.dims, data |-> ds.data]

\* ---- the remote database
\* A response is what the UDA client has for one shot: nothing (every get
\* raises), or the geometry of its signals and the span of native time
\* each was sampled over, one sample per unit of time.
Sample(shot_id, t, k) == 100 * shot_id + 10 * (t - MinTime + 2) + k

\* self.client.get(signal_name, shot_id) for a response that has the shot
ClientGet(resp, name, shot_id) ==
    LET span == resp.span[name]
        times == [i \in 1..(span.hi - span.lo + 1) |-> span.lo + i - 1]
        shape == IF name \in ProfileSignals
                 THEN <<Len(times), Len(resp.radius)>>
                 ELSE <<Len(times), Len(resp.radius), Len(resp.wavelength)>>
        cells(off) == [i \in DOMAIN times |->
                         [k \in 1..Product(Tail(shape)) |->
                             Sample(shot_id, times[i], k) + off]]
    IN [data |-> [shape |-> shape, cells |-> cells(0)],
        errors |-> [shape |-> shape, cells |-> cells(5)],
        dims |-> <<times, resp.radius>>]

\* [ok, stage, ds, rng, cand, picked]: ok is FALSE when a call raised, and
\* stage names it; cand and picked are the candidate and the selected time
\* points of the volume dataset once subsample_dataset was reached
LoadFailed(stage, cand, s) ==
    [ok |-> FALSE, stage |-> stage, ds |-> NoDataset, rng |-> s,
     cand |-> cand, picked |-> <<>>]

\* the tail of load_dataset: merge the profiles with the subsampled
\* volumes and add the shot_id axis
LoadSampled(radial_profiles, sub, cand, shot_id) ==
    IF ~sub.ok THEN LoadFailed("subsample", cand, sub.rng)
    ELSE [ok |-> TRUE, stage |-> "loaded",
          ds |-> expand_dims(merge_on_time(radial_profiles, sub.ds), shot_id),
          rng |-> sub.rng, cand |-> cand, picked |-> sub.ds.time]

\* load_dataset once both groups are on the time base: subsample the volumes
LoadAligned(radial_profiles, wavelength_profiles, shot_id, sample_method, num_samples, s) ==
    LoadSampled(radial_profiles,
                subsample_dataset(wavelength_profiles, sample_method,
                                  num_samples, s),
                CandidateTimes(wavelength_profiles), shot_id)

\* load_dataset once every signal is built: align and merge each group
LoadBuilt(prof, vol, shot_id, sample_method, num_samples, s) ==
    IF \E n \in DOMAIN prof : ~prof[n].ok THEN LoadFailed("build", <<>>, s)
    ELSE IF \E n \in DOMAIN vol : ~vol[n].ok THEN LoadFailed("build", <<>>, s)
    ELSE LoadAligned(
            merge({interp(prof[n].ds, TimeBase) : n \in DOMAIN prof}),
            merge({interp(vol[n].ds, TimeBase) : n \in DOMAIN vol}),
            shot_id, sample_method, num_samples, s)

load_dataset(resp, shot_id, sample_method, num_samples, s) ==
    IF ~resp.avail THEN LoadFailed("fetch", <<>>, s)
    ELSE LoadBuilt(
            [n \in ProfileSignals |->
                get_radial_profile(n, ClientGet(resp, n, shot_id))],
            [n \in VolumeSignals |->
                get_volume_data(n, ClientGet(resp, n, shot_id),
                                [data |-> <<resp.wavelength>>])],
            shot_id, sample_method, num_samples, s)

----------------------------------------------------------------------------
(* write_dataset and the shots.zarr store.  A store is Absent or           *)
(* [exists, time, coords, dims, entries]: entries[k] is the k-th position  *)
(* of the shot_id axis, [shot_id, data]; time and coords are the arrays of *)
(* the dimensions that are not appended along.                             *)

Absent == [exists |-> FALSE]

\* dataset.to_zarr(output_file): creates the store from the dataset
to_zarr_create(ds) ==
    [exists |-> TRUE, time |-> ds.time, coords |-> ds.coords, dims |-> ds.dims,
     entries |-> <<[shot_id |-> ds.shot_id[1], data |-> ds.data]>>]

\* what to_zarr compares before it appends: every variable of the store has
\* the same dimension names and, off the append dimension, the same sizes
SameSizes(store, ds) ==
    /\ DOMAIN store.dims = DOMAIN ds.dims
    /\ \A n \in DOMAIN store.dims : store.dims[n] = ds.dims[n]
    /\ Len(store.time) = Len(ds.time)
    /\ DOMAIN store.coords = DOMAIN ds.coords
    /\ \A d \in DOMAIN store.coords : Len(store.coords[d]) = Len(ds.coords[d])

\* an append that checks the sizes only after it has grown the store
to_zarr_append_then_check(store, ds) ==
    [raised |-> ~SameSizes(store, ds),
     store |-> [store EXCEPT
                   !.time = ds.time,
                   !.coords = ds.coords,
                   !.entries = Append(@, [shot_id |-> ds.shot_id[1],
                                          data |-> ds.data])]]

\* dataset.to_zarr(output_file, mode="a", append_dim="shot_id"): raises
\* ValueError on a size mismatch, before anything is written; else every
\* variable with shot_id grows by the dataset's entry and every variable
\* without it (time, major_radius, wavelength) is overwritten by the
\* dataset's
to_zarr_append(store, ds) ==
    IF ~SameSizes(store, ds)
    THEN [raised |-> TRUE, store |-> store]
    ELSE [raised |-> FALSE,
          store |-> [store EXCEPT
                        !.time = ds.time,
                        !.coords = ds.coords,
                        !.entries = Append(@, [shot_id |-> ds.shot_id[1],
                                               data |-> ds.data])]]

\* [raised, store]
write_dataset(ds, store) ==
    IF store.exists
    THEN to_zarr_append(store, ds)
    ELSE [raised |-> FALSE, store |-> to_zarr_create(ds)]

NoWrite == [called |-> FALSE]

\* the write_dataset call of process_shot, and what it did
WriteLoaded(l, w, shot_id, store) ==
    [status |-> IF w.raised THEN "write" ELSE "ok",
     store |-> w.store, rng |-> l.rng, cand |-> l.cand, picked |-> l.picked,
     write |-> [called |-> TRUE, shot_id |-> shot_id, ds |-> l.ds,
                before |-> store, raised |-> w.raised, after |-> w.store]]

ProcessLoaded(l, shot_id, store) ==
    IF ~l.ok
    THEN [status |-> l.stage, store |-> store, rng |-> l.rng,
          cand |-> l.cand, picked |-> l.picked, write |-> NoWrite]
    ELSE WriteLoaded(l, write_dataset(l.ds, store), shot_id, store)

\* process_shot: load, then write; any exception is logged and swallowed.
\* [status, store, rng, cand, picked, write]
process_shot(resp, shot_id, store, sample_method, num_samples, s) ==
    ProcessLoaded(load_dataset(resp, shot_id, sample_method, num_samples, s),
                  shot_id, store)

----------------------------------------------------------------------------
(* Spec: batch runs of main against a fixed remote database.               *)

ShotIds == 1..MaxShot
Paths == {"out_a", "out_b"}

FullSpan == [lo |-> MinTime, hi |-> TimeBase[TimeBaseLen]]
Geometry(radius) ==
    [avail |-> TRUE, radius |-> radius, wavelength |-> <<5>>,
     span |-> [n \in ProfileSignals \cup VolumeSignals |-> FullSpan]]
\* the shot is not in the database
Unavailable == [avail |-> FALSE]
\* ss_fits was sampled only up to the first point of the time base and
\* ss_counts only before it
ShortVolumes ==
    [Geometry(<<1, 2>>) EXCEPT
        !.span["ss_fits"] = [lo |-> MinTime - 1, hi |-> MinTime],
        !.span["ss_counts"] = [lo |-> MinTime - 2, hi |-> MinTime - 1]]
Responses ==
    {Unavailable, Geometry(<<1, 2>>), Geometry(<<1, 3>>), Geometry(<<1, 2, 3>>),
     ShortVolumes}

NoArgs == [seed |-> 0, output_path |-> "", overwrite |-> FALSE]

----------------------------------------------------------------------------
(* SpecSub: subsample_dataset on every dataset of the bounds.              *)

\* --seed's default
DefaultSeed == 42
Seeds == {DefaultSeed, DefaultSeed + 1}
Methods == {"random", "grid"}

\* one variable's slice at time label t: two cells, all / some / none missing
SliceOf(kind, t) ==
    CASE kind = "full" -> <<t, t>>
      [] kind = "partial" -> <<NaN, t>>
      [] OTHER -> <<NaN, NaN>>
SliceKinds == {"full", "partial", "missing"}
Patterns == [VolumeVars -> SliceKinds]
GapPatterns == {p \in Patterns : \E v \in VolumeVars : p[v] # "full"}

\* the dataset with n time points whose slices are full except at the gaps
MakeDataset(n, gap) ==
    LET time == TimeGrid(n)
    IN [time |-> time,
        data |-> [v \in VolumeVars |->
                    [i \in 1..n |->
                        SliceOf(IF i \in DOMAIN gap THEN gap[i][v] ELSE "full",
                                time[i])]]]

SubDatasets(maxT, maxGaps) ==
    UNION {UNION {{MakeDataset(n, gap) : gap \in [G -> GapPatterns]}
                   : G \in {H \in SUBSET (1..n) : Cardinality(H) <= maxGaps}}
            : n \in 1..maxT}

NoCall == [phase |-> "none", ds |-> NoDataset, rng |-> 0]

BatchIdle ==
    /\ source = <<>>
    /\ conf = [shot_min |-> 0, shot_max |-> 0, sample_method |-> "grid",
               num_samples |-> 1, seed |-> 0]
    /\ pc = "idle"
    /\ args = NoArgs
    /\ cursor = 0
    /\ rng = 0
    /\ stores = <<>>
    /\ base = Absent
    /\ attempted = <<>>
    /\ outcome = <<>>
    /\ lastWrite = NoWrite
    /\ finished = <<>>

\* no cxrs_validation_ratings.csv yet
NoFile == <<>>
NoNav == [called |-> FALSE]

DashIdle ==
    /\ frames = <<>>
    /\ frame_indices = <<>>
    /\ current_index = 0
    /\ frame = <<>>
    /\ group_value = <<>>
    /\ focus_index = 0
    /\ ratings = <<>>
    /\ csv = NoFile
    /\ lastNav = NoNav

NoBuild == [phase |-> "none", call |-> "", ds |-> <<>>]

BuildIdle ==
    /\ sig = <<>>
    /\ built = NoBuild

SubInit ==
    /\ sub_in \in [ds : SubDatasets(SubMaxT, SubMaxGaps), method : Methods,
                    num_samples : 1..MaxSamples,
                    rng : {RandSeed(s) : s \in Seeds}]
    /\ sub_out = NoCall
    /\ BuildIdle
    /\ DashIdle
    /\ BatchIdle

\* one call of subsample_dataset
Subsample ==
    /\ sub_out.phase = "none"
    /\ \E r \in {subsample_dataset(sub_in.ds, sub_in.method,
                                     sub_in.num_samples, sub_in.rng)} :
          sub_out' = [phase |-> IF r.ok THEN "returned" ELSE "raised",
                      ds |-> r.ds, rng |-> r.rng]
    /\ UNCHANGED <<sub_in, buildVars, batchVars, dashVars>>

SubNext == Subsample

SpecSub == SubInit /\ [][SubNext]_vars

----------------------------------------------------------------------------
(* SpecBuild: the two builders on every signal of the bounds.              *)

SignalNames == {"temperature", "ss_fits"}
Fills == {"zeros", "ramp", "plane"}
Fill(kind, i, k) ==
    CASE kind = "zeros" -> 0
      [] kind = "ramp" -> i
      [] OTHER -> 10 * i + k

MakeArray(shape, kind) ==
    [shape |-> shape,
     cells |-> [i \in 1..shape[1] |->
                  [k \in 1..Product(Tail(shape)) |-> Fill(kind, i, k)]]]

Coord(n, first) == [i \in 1..n |-> first + i]

\* what the client can return: arrays of rank 2 or 3, the coordinate
\* vectors of their axes, and two defects a fetched signal can have
Defects == {"none", "coord", "errors"}
MakeSignal(shape, fdata, ferrors, defect) ==
    [data |-> MakeArray(shape, fdata),
     errors |-> MakeArray(IF defect = "errors"
                          THEN [shape EXCEPT ![1] = shape[1] + 1]
                          ELSE shape, ferrors),
     dims |-> [k \in DOMAIN shape |->
                 Coord(IF defect = "coord" /\ k = 2 THEN shape[k] + 1
                       ELSE shape[k], 10 * k)]]

BuildInputs(maxDim) ==
    {[name |-> n,
      signal |-> MakeSignal(shape, fd, fe, df),
      wavelength |-> [data |-> <<Coord(shape[Len(shape)], 30)>>]] :
        n \in SignalNames,
        shape \in [1..2 -> 1..maxDim] \cup [1..3 -> 1..maxDim],
        fd \in Fills, fe \in Fills, df \in Defects}

BuildInit ==
    /\ sig \in BuildInputs(MaxDim)
    /\ built = NoBuild
    /\ sub_in = <<>>
    /\ sub_out = NoCall
    /\ BatchIdle
    /\ DashIdle

Outcome(call, r) ==
    [phase |-> IF r.ok THEN "returned" ELSE "raised", call |-> call, ds |-> r.ds]

\* loader.get_radial_profile(name, signal_name, shot_id)
GetRadialProfile ==
    /\ built.phase = "none"
    /\ built' = Outcome("profile", get_radial_profile(sig.name, sig.signal))
    /\ UNCHANGED <<sig, subVars, batchVars, dashVars>>

\* loader.get_volume_data(name, signal_name, shot_id)
GetVolumeData ==
    /\ built.phase = "none"
    /\ built' = Outcome("volume",
                        get_volume_data(sig.name, sig.signal, sig.wavelength))
    /\ UNCHANGED <<sig, subVars, batchVars, dashVars>>

BuildNext == GetRadialProfile \/ GetVolumeData

SpecBuild == BuildInit /\ [][BuildNext]_vars

----------------------------------------------------------------------------
(* The batch driver's state machine.                                       *)

\* conf is the command line every run is given; source is what the
\* database holds for each shot of its range
Init ==
    /\ conf \in {c \in [shot_min : ShotIds, shot_max : ShotIds,
                         sample_method : Methods,
                         num_samples : 1..MaxBatchSamples, seed : Seeds] :
                    c.shot_min <= c.shot_max}
    /\ source \in [conf.shot_min..conf.shot_max -> Responses]
    /\ pc = "idle"
    /\ args = NoArgs
    /\ cursor = 0
    /\ rng = 0
    /\ stores = [p \in Paths |-> Absent]
    /\ base = Absent
    /\ attempted = <<>>
    /\ outcome = <<>>
    /\ lastWrite = NoWrite
    /\ finished = <<>>
    /\ sub_in = <<>>
    /\ sub_out = NoCall
    /\ BuildIdle
    /\ DashIdle

\* a main that never seeds: the generator keeps its start from entropy
SeedFromEntropy(seed, entropy) == entropy

\* np.random.seed(args.seed) in a process whose generator started from the
\* system's entropy
SeedGenerator(seed, entropy) == RandSeed(seed)

\* main up to its loop: parse the arguments, seed the generator, make the
\* output directory.  --overwrite is parsed and never read again.
Start ==
    /\ pc \in {"idle", "done"}
    /\ Len(finished) < MaxRuns
    /\ \E path \in Paths, overwrite \in BOOLEAN, entropy \in Entropy :
          \* the output paths are interchangeable: the first run takes out_a
          /\ finished = <<>> => path = "out_a"
          /\ args' = [seed |-> conf.seed, output_path |-> path,
                      overwrite |-> overwrite]
          /\ rng' = SeedGenerator(conf.seed, entropy)
          /\ base' = stores[path]
    /\ cursor' = conf.shot_min
    /\ attempted' = <<>>
    /\ outcome' = <<>>
    /\ pc' = "running"
    /\ UNCHANGED <<source, conf, stores, lastWrite, finished, subVars, buildVars,
                   dashVars>>

\* what one call of process_shot leaves behind
Processed(r) ==
    /\ stores' = [stores EXCEPT ![args.output_path] = r.store]
    /\ rng' = r.rng
    /\ outcome' = Append(outcome, [shot_id |-> cursor, status |-> r.status,
                                   cand |-> r.cand, picked |-> r.picked])
    /\ lastWrite' = IF r.write.called THEN r.write ELSE lastWrite
    /\ attempted' = Append(attempted, cursor)

\* a process_shot without its try/except: the first exception ends main
ProcessShotUncaught ==
    /\ pc = "running"
    /\ cursor <= conf.shot_max
    /\ \E r \in {process_shot(source[cursor], cursor, stores[args.output_path],
                                conf.sample_method, conf.num_samples, rng)} :
          /\ Processed(r)
          /\ cursor' = IF r.status = "ok" THEN cursor + 1 ELSE conf.shot_max + 1
    /\ UNCHANGED <<source, conf, pc, args, base, finished, subVars, buildVars,
                   dashVars>>

\* one iteration of main's loop: process_shot(shot_id, ...)
ProcessShot ==
    /\ pc = "running"
    /\ cursor <= conf.shot_max
    /\ \E r \in {process_shot(source[cursor], cursor, stores[args.output_path],
                                conf.sample_method, conf.num_samples, rng)} :
          Processed(r)
    /\ cursor' = cursor + 1
    /\ UNCHANGED <<source, conf, pc, args, base, finished, subVars, buildVars,
                   dashVars>>

\* the loop is exhausted and main returns
Finish ==
    /\ pc = "running"
    /\ cursor > conf.shot_max
    /\ pc' = "done"
    /\ finished' = Append(finished, [seed |-> args.seed,
                                     output_path |-> args.output_path,
                                     base |-> base,
                                     attempted |-> attempted,
                                     outcome |-> outcome,
                                     final |-> stores[args.output_path]])
    /\ args' = NoArgs
    /\ UNCHANGED <<source, conf, cursor, rng, stores, base, attempted,
                   outcome, lastWrite, subVars, buildVars,
                   dashVars>>

Next == Start \/ ProcessShot \/ Finish

Spec == Init /\ [][Next]_vars

\* Every call of process_shot returns (it swallows every exception), so
\* main's loop keeps stepping.  ProcessShot and Finish have no guard but
\* the loop's own, so their fairness is stated on the loop counter alone:
\* a step that moves the cursor on is a ProcessShot step, and one that
\* leaves the loop is a Finish step.
loopVars == <<pc, cursor>>

Iterating ==
    /\ pc = "running"
    /\ cursor <= conf.shot_max
    /\ cursor' = cursor + 1
    /\ pc' = pc

Leaving ==
    /\ pc = "running"
    /\ cursor > conf.shot_max
    /\ pc' = "done"
    /\ cursor' = cursor

FairSpec == Spec /\ WF_loopVars(Iterating) /\ WF_loopVars(Leaving)

----------------------------------------------------------------------------
(* SpecDash: the dashboard (src/src/main.py, CXRSValidationApp) opened on  *)
(* a store, and a reviewer who selects labels and navigates.               *)

categorical_options == <<"1 - Bad", "2 - Average", "3 - Good">>
\* self.groups: emissivity_label, velocity_label, temperature_label
Groups == 1..3

\* --seed's default of the dashboard
DashDefaultSeed == 50
DashSeeds == {DashDefaultSeed, DashDefaultSeed + 1}

\* the radial points of the opened store
DashRadius == <<1, 2>>

\* dataset.stack(frame=("shot_id", "time", "major_radius")).frame for a
\* store of shots 1..shots with one valid time point: shot-major order
Stack(shots) ==
    [k \in 1..(shots * Len(DashRadius)) |->
        [shot_id |-> 1 + (k - 1) \div Len(DashRadius),
         time_point |-> TimeGrid(1)[1],
         radial_point |-> DashRadius[1 + ((k - 1) % Len(DashRadius))]]]

\* np.arange(len(self.frames)) after np.random.shuffle
ShuffledIndices(n, seed) ==
    Shuffle([i \in 1..n |-> i - 1], n, RandSeed(seed)).perm

\* numpy's index check: -n .. n-1, the negative ones counted from the end
InRange(index, n) == -n <= index /\ index < n
Position(index, n) == IF index >= 0 THEN index + 1 ELSE n + index + 1

\* self.frames.isel(frame=self.frame_indices[index])
FrameAt(index) == frames[frame_indices[Position(index, Len(frame_indices))] + 1]

\* the columns of the export, in the order of save_state's dict
Columns ==
    <<"current_index", "shot_id", "time_point", "radial_point",
      "emissivity_label", "velocity_label", "temperature_label">>

\* the cell DataFrame.to_csv writes for a record's column: a number is
\* written in decimal, a label as it is
NumberColumns == {"current_index", "shot_id", "time_point", "radial_point"}
Cell(record, column) ==
    IF column \in NumberColumns THEN ToString(record[column]) ELSE record[column]

\* pd.DataFrame(records).to_csv(path, index=False): a header line and one
\* line per record, the whole file written anew
to_csv(records) ==
    [header |-> Columns,
     rows |-> [k \in DOMAIN records |->
                 [c \in DOMAIN Columns |-> Cell(records[k], Columns[c])]]]

\* save_state's info for the widgets' values v
Info(v) ==
    [current_index |-> current_index,
     shot_id |-> frame.shot_id,
     time_point |-> frame.time_point,
     radial_point |-> frame.radial_point,
     emissivity_label |-> v[1],
     velocity_label |-> v[2],
     temperature_label |-> v[3]]

DashInit ==
    /\ \E shots \in 1..MaxDashShots, seed \in DashSeeds :
          /\ frames = Stack(shots)
          /\ frame_indices = ShuffledIndices(Len(Stack(shots)), seed)
          /\ frame = Stack(shots)[ShuffledIndices(Len(Stack(shots)), seed)[1] + 1]
    /\ current_index = 0
    /\ group_value = [g \in Groups |-> categorical_options[1]]
    /\ focus_index = 0
    /\ ratings = <<>>
    /\ csv = NoFile
    /\ lastNav = NoNav
    /\ sub_in = <<>>
    /\ sub_out = NoCall
    /\ BuildIdle
    /\ BatchIdle

\* handle_next_click (step = 1) and handle_prev_click (step = -1): every
\* group is set to the first option, then save_state, then the index moves
\* and _get_frame loads the frame (an IndexError leaves the old frame)
Navigate(step) ==
    /\ frames # <<>>
    /\ Len(ratings) < MaxNav
    /\ group_value' = [g \in Groups |-> categorical_options[1]]
    /\ ratings' = Append(ratings, Info([g \in Groups |-> categorical_options[1]]))
    /\ csv' = to_csv(Append(ratings, Info([g \in Groups |-> categorical_options[1]])))
    /\ current_index' = current_index + step
    /\ frame' = IF InRange(current_index + step, Len(frame_indices))
                THEN FrameAt(current_index + step)
                ELSE frame
    /\ lastNav' = [called |-> TRUE, current_index |-> current_index,
                   frame |-> frame, selected |-> group_value]
    /\ UNCHANGED <<frames, frame_indices, subVars, buildVars, batchVars>>

NextClick == Navigate(1) /\ UNCHANGED focus_index

PrevClick == Navigate(-1) /\ UNCHANGED focus_index

\* the reviewer clicks an option of a RadioBoxGroup
SelectLabel ==
    /\ frames # <<>>
    /\ \E g \in Groups, o \in Range(categorical_options) :
          group_value' = [group_value EXCEPT ![g] = o]
    /\ UNCHANGED <<frames, frame_indices, current_index, frame, focus_index,
                   ratings, csv, lastNav, subVars, buildVars, batchVars>>

\* handle_shortcut: Enter moves the focus, the arrows navigate, and 1, 2, 3
\* set the focused group
Shortcut ==
    \/ /\ frames # <<>>
       /\ focus_index' = (focus_index + 1) % Cardinality(Groups)
       /\ UNCHANGED <<frames, frame_indices, current_index, frame, group_value,
                      ratings, csv, lastNav, subVars, buildVars, batchVars>>
    \/ focus_index' = 0 /\ Navigate(-1)
    \/ focus_index' = 0 /\ Navigate(1)
    \/ /\ frames # <<>>
       /\ \E o \in Range(categorical_options) :
             group_value' = [group_value EXCEPT ![focus_index + 1] = o]
       /\ UNCHANGED <<frames, frame_indices, current_index, frame, focus_index,
                      ratings, csv, lastNav, subVars, buildVars, batchVars>>

DashNext == NextClick \/ PrevClick \/ SelectLabel \/ Shortcut

SpecDash == DashInit /\ [][DashNext]_vars

----------------------------------------------------------------------------
(* Properties of subsample_dataset (SpecSub).                              *)

SubCalled == sub_out.phase # "none"
SubCand == CandidateTimes(sub_in.ds)
SubPicked == sub_out.ds.time

\* the slices of the input at time label t, per variable
SlicesAt(ds, t) == [v \in DOMAIN ds.data |-> ds.data[v][IndexOf(ds.time, t)]]

\* the result holds, at each of its time points, the input's slices there
SubKeepsData ==
    \A k \in DOMAIN SubPicked :
        [v \in DOMAIN sub_out.ds.data |-> sub_out.ds.data[v][k]]
            = SlicesAt(sub_in.ds, SubPicked[k])

\* C5: grid returns exactly the candidate time points at the 0-based
\* indices 0, s, 2s, ... with s = max(1, floor(T / num_samples)), in time
\* order; 10 candidates with num_samples = 5 give 5 points at stride 2.
C5_GridStride ==
    (SubCalled /\ sub_in.method = "grid") =>
        LET T == Len(SubCand)
            f == T \div sub_in.num_samples
            s == IF f >= 1 THEN f ELSE 1
            idx == {i \in 0..(T - 1) : i % s = 0}
        IN /\ sub_out.phase = "returned"
           /\ Len(SubPicked) = Cardinality(idx)
           /\ \A k \in DOMAIN SubPicked : SubPicked[k] = SubCand[(k - 1) * s + 1]
           /\ \A k \in DOMAIN SubPicked :
                 k > 1 => SubPicked[k - 1] < SubPicked[k]
           /\ SubKeepsData
           /\ (T = 10 /\ sub_in.num_samples = 5) =>
                 /\ Len(SubPicked) = 5
                 /\ \A k \in 1..5 : SubPicked[k] = SubCand[2 * k - 1]

C5_Witness ==
    /\ sub_out.phase = "returned"
    /\ sub_in.method = "grid"
    /\ Len(SubCand) = 10
    /\ sub_in.num_samples = 5
    /\ Len(SubPicked) = 5

\* C6 (as claimed): grid never returns more than num_samples time points.
C6_GridAtMostNumSamples ==
    (sub_out.phase = "returned" /\ sub_in.method = "grid") =>
        Len(SubPicked) <= sub_in.num_samples

FullyMissing(slice) == \A c \in DOMAIN slice : slice[c] = NaN

\* C8 (as claimed): no selected time point has a variable that is missing
\* in all its cells there.
C8_NoFullyMissingVariable ==
    sub_out.phase = "returned" =>
        \A k \in DOMAIN SubPicked :
            \A v \in DOMAIN sub_in.ds.data :
                ~FullyMissing(SlicesAt(sub_in.ds, SubPicked[k])[v])

\* C8 (amended): for both methods, every selected time point is one where
\* at least one variable has at least one value that is not missing; a
\* time point is left out of the candidate set exactly when every variable
\* is missing in all its cells there.
C8_SomeVariableHasData ==
    sub_out.phase = "returned" =>
        /\ \A k \in DOMAIN SubPicked :
              /\ \E i \in DOMAIN sub_in.ds.time : sub_in.ds.time[i] = SubPicked[k]
              /\ \E v \in DOMAIN sub_in.ds.data :
                    ~FullyMissing(SlicesAt(sub_in.ds, SubPicked[k])[v])
        /\ Range(SubCand) =
              {sub_in.ds.time[i] : i \in
                  {j \in DOMAIN sub_in.ds.time :
                      \E v \in DOMAIN sub_in.ds.data :
                          ~FullyMissing(sub_in.ds.data[v][j])}}

\* a selected time point where one variable is fully missing and the other
\* has data
C8_Witness ==
    /\ sub_out.phase = "returned"
    /\ \E k \in DOMAIN SubPicked :
          LET sl == SlicesAt(sub_in.ds, SubPicked[k])
          IN /\ FullyMissing(sl["ss_fits"])
             /\ ~FullyMissing(sl["ss_counts"])

----------------------------------------------------------------------------
(* Properties of the builders (SpecBuild).                                 *)

\* a signal the called builder accepts: the rank it wraps, one coordinate
\* value per index of every axis, errors shaped like the values
ValidSignal ==
    LET sg == sig.signal
        rank == IF built.call = "profile" THEN 2 ELSE 3
    IN /\ Len(sg.data.shape) = rank
       /\ sg.errors.shape = sg.data.shape
       /\ \A k \in 1..2 : Len(sg.dims[k]) = sg.data.shape[k]
       /\ rank = 3 => Len(sig.wavelength.data[1]) = sg.data.shape[3]

BuiltCoords ==
    IF built.call = "profile"
    THEN [d \in {"time", "major_radius"} |->
            IF d = "time" THEN sig.signal.dims[1] ELSE sig.signal.dims[2]]
    ELSE [d \in {"time", "major_radius", "wavelength"} |->
            CASE d = "time" -> sig.signal.dims[1]
              [] d = "major_radius" -> sig.signal.dims[2]
              [] OTHER -> sig.wavelength.data[1]]

BuiltAs(vname, ename) ==
    /\ (built.phase # "none" /\ ValidSignal) => built.phase = "returned"
    /\ built.phase = "returned" =>
          /\ DOMAIN built.ds = {vname, ename}
          /\ built.ds[vname].dims = built.ds[ename].dims
          /\ built.ds[vname].coords = built.ds[ename].coords
          /\ built.ds[vname].coords = BuiltCoords
          /\ built.ds[vname].values = sig.signal.data.cells
          /\ built.ds[ename].values = sig.signal.errors.cells

\* C10 (as claimed): the built dataset's two variables are <name>_value and
\* <name>_error.
C10_NamedValueAndError ==
    BuiltAs(sig.name \o "_value", sig.name \o "_error")

\* C10 (amended): for every valid rank-2 or rank-3 signal and every name the
\* builder returns a dataset with exactly two variables, named <name>_data
\* and <name>_error, with identical dimensions and coordinates, holding
\* exactly the signal's value array and error array.
C10_NamedDataAndError ==
    BuiltAs(sig.name \o "_data", sig.name \o "_error")

C10_Witness ==
    /\ built.phase = "returned"
    /\ built.call = "profile"
    /\ sig.signal.data.cells # sig.signal.errors.cells
    /\ Len(sig.signal.data.shape) = 2
    /\ built.ds[sig.name \o "_error"].values = sig.signal.errors.cells

----------------------------------------------------------------------------
(* Properties of the batch driver (Spec, FairSpec).                        *)

\* the shot numbers along a store's shot_id axis
EntryIds(store) ==
    IF store.exists THEN [k \in DOMAIN store.entries |-> store.entries[k].shot_id]
    ELSE <<>>

IsOk(o) == o.status = "ok"
OkIds(log) ==
    LET ok == SelectSeq(log, IsOk) IN [k \in DOMAIN ok |-> ok[k].shot_id]

\* the output path of the run in progress or, after it, of the last run
CurPath ==
    IF pc = "running" THEN args.output_path
    ELSE finished[Len(finished)].output_path

\* the shots the run in progress (or the last run) has added to its store
AddedIds ==
    SubSeq(EntryIds(stores[CurPath]), Len(EntryIds(base)) + 1,
           Len(EntryIds(stores[CurPath])))

\* C1: after a batch run the store holds one entry per shot whose
\* processing raised nothing, in the order processed, after what the store
\* held before; started on an absent store, the number of entries equals the
\* number of such shots and no shot that raised has an entry.  A shot the
\* database does not have always raises.
C1_EntriesAreSuccesses ==
    pc = "done" =>
        LET final == stores[CurPath] IN
        /\ EntryIds(final) = EntryIds(base) \o OkIds(outcome)
        /\ \A k \in DOMAIN outcome :
              ~source[outcome[k].shot_id].avail => ~IsOk(outcome[k])
        /\ ~base.exists =>
              /\ Len(EntryIds(final))
                    = Cardinality({k \in DOMAIN outcome : IsOk(outcome[k])})
              /\ \A k \in DOMAIN outcome :
                    ~IsOk(outcome[k]) =>
                        outcome[k].shot_id \notin Range(EntryIds(final))
              /\ (\A k \in DOMAIN outcome : ~IsOk(outcome[k])) => ~final.exists

\* a finished run on a fresh store in which one shot failed at the write
\* and another was stored
C1_Witness ==
    /\ pc = "done"
    /\ ~base.exists
    /\ \E k \in DOMAIN outcome : outcome[k].status = "write"
    /\ \E k \in DOMAIN outcome : IsOk(outcome[k])
    /\ Len(EntryIds(stores[CurPath])) = 1

\* the shot numbers from lo up to hi
Ascending(lo, hi) == [k \in 1..(hi - lo + 1) |-> lo + k - 1]

\* C2: the driver calls process_shot for every shot number of
\* [shot_min, shot_max] exactly once, in ascending order, one call at a
\* time; whatever the call raised the next call is for the next number; and
\* a run that has started completes.
C2_EveryShotOnceInOrder ==
    /\ [](pc = "running" =>
            /\ cursor \in conf.shot_min..(conf.shot_max + 1)
            /\ attempted = Ascending(conf.shot_min, cursor - 1)
            /\ Len(outcome) = Len(attempted))
    /\ [](pc = "done" => attempted = Ascending(conf.shot_min, conf.shot_max))
    /\ [][(pc = "running" /\ attempted' # attempted) =>
            /\ attempted' = Append(attempted, cursor)
            /\ cursor' = cursor + 1
            /\ pc' = "running"]_vars
    /\ (pc = "running" ~> pc = "done")

\* a finished run that went on after a failed shot and stored the one after
C2_Witness ==
    /\ pc = "done"
    /\ Len(attempted) >= 2
    /\ ~IsOk(outcome[1])
    /\ IsOk(outcome[2])

\* a store as the table it is read back as: one row per position of the
\* shot_id axis, each with the coordinate labels its cells are read against
Rows(store) ==
    IF store.exists
    THEN [k \in DOMAIN store.entries |->
            [shot_id |-> store.entries[k].shot_id,
             time |-> store.time,
             coords |-> store.coords,
             data |-> store.entries[k].data]]
    ELSE <<>>

IsPrefix(a, b) == Len(a) <= Len(b) /\ SubSeq(b, 1, Len(a)) = a

\* C3: a write to an absent destination creates the store holding exactly
\* that shot; a write to an existing destination appends the shot along
\* shot_id; and the entries already in the store stay present and unchanged
\* (whatever --overwrite was given), so the store is never truncated or
\* rewritten.
C3_StoreOnlyGrows ==
    lastWrite.called =>
        LET w == lastWrite IN
        IF ~w.before.exists
        THEN /\ w.after.exists
             /\ Rows(w.after) = <<[shot_id |-> w.shot_id, time |-> w.ds.time,
                                   coords |-> w.ds.coords, data |-> w.ds.data]>>
        ELSE /\ w.after.exists
             /\ IsPrefix(Rows(w.before), Rows(w.after))
             /\ ~w.raised =>
                   /\ Len(Rows(w.after)) = Len(Rows(w.before)) + 1
                   /\ Rows(w.after)[Len(Rows(w.after))].shot_id = w.shot_id

\* the store's schema against a dataset's: variable names, the shapes off
\* the shot axis, and the coordinate values
SchemaDiffers(store, ds) ==
    \/ DOMAIN store.dims # DOMAIN ds.dims
    \/ \E n \in DOMAIN store.dims \cap DOMAIN ds.dims : store.dims[n] # ds.dims[n]
    \/ store.time # ds.time
    \/ store.coords # ds.coords

\* C4: appending to an existing store a dataset whose schema (variable
\* names, non-shot-axis shapes or coordinate values) differs from the
\* store's fails, and leaves the store's prior content unchanged.
C4_MismatchRaises ==
    (lastWrite.called /\ lastWrite.before.exists
        /\ SchemaDiffers(lastWrite.before, lastWrite.ds))
    => (lastWrite.raised /\ lastWrite.after = lastWrite.before)

\* the points of the time base at which some volume signal of the response
\* was sampled: the candidate set, read off the remote data
SourceCandidates(resp) ==
    {t \in Range(TimeBase) :
        \E n \in VolumeSignals : resp.span[n].lo <= t /\ t <= resp.span[n].hi}

\* C7: under method random a shot whose candidate set has at least
\* num_samples points gets exactly num_samples pairwise-distinct time
\* points, all from the candidate set; a shot with fewer candidates fails
\* in subsample, selects nothing, and is not written.
C7_RandomExactOrSkipped ==
    (conf.sample_method = "random" /\ pc \in {"running", "done"}) =>
        \A k \in DOMAIN outcome :
            LET o == outcome[k]
                resp == source[o.shot_id]
            IN resp.avail =>
                /\ Range(o.cand) = SourceCandidates(resp)
                /\ IF Cardinality(SourceCandidates(resp)) >= conf.num_samples
                   THEN /\ o.status \in {"ok", "write"}
                        /\ Len(o.picked) = conf.num_samples
                        /\ Cardinality(Range(o.picked)) = conf.num_samples
                        /\ Range(o.picked) \subseteq SourceCandidates(resp)
                   ELSE /\ o.status = "subsample"
                        /\ o.picked = <<>>
                        /\ o.shot_id \notin Range(AddedIds)

\* a random run in which one shot had too few candidates and another got
\* its num_samples points out of more
C7_Witness ==
    /\ conf.sample_method = "random"
    /\ pc = "done"
    /\ \E k \in DOMAIN outcome : outcome[k].status = "subsample"
    /\ \E k \in DOMAIN outcome :
          /\ IsOk(outcome[k])
          /\ Len(outcome[k].picked) = conf.num_samples
          /\ Len(outcome[k].cand) > conf.num_samples
          /\ conf.num_samples > 1

\* C9: two batch runs with the same seed, shot range, method, num_samples
\* and source responses, started on equal stores, select the same time
\* points for every shot (the failing shots included) and leave identical
\* stores.
C9_SameSeedSameRun ==
    \A i, j \in DOMAIN finished :
        (finished[i].seed = finished[j].seed /\ finished[i].base = finished[j].base)
        => /\ finished[i].outcome = finished[j].outcome
           /\ finished[i].final = finished[j].final

\* two finished random runs from equal stores in which a shot failed and a
\* later shot selected its time points
C9_Witness ==
    /\ conf.sample_method = "random"
    /\ Len(finished) = 2
    /\ finished[1].seed = finished[2].seed
    /\ finished[1].base = finished[2].base
    /\ \E k, m \in DOMAIN finished[2].outcome :
          /\ k < m
          /\ ~IsOk(finished[2].outcome[k])
          /\ IsOk(finished[2].outcome[m])
          /\ finished[2].outcome[m].picked # <<>>
          /\ Len(finished[2].outcome[m].picked) < Len(finished[2].outcome[m].cand)

\* C12: for every shot that loads, whichever time points the subsampler
\* selected, the merged dataset's time coordinate is the fixed time base
\* (ceil((max - min) / dt) + 1 values, the same for every shot) and its
\* shot_id axis is the shot number alone; so every store carries the time
\* base as its time coordinate.
C12_TimeIsTimeBase ==
    /\ lastWrite.called =>
          /\ lastWrite.ds.time = TimeBase
          /\ Len(lastWrite.ds.time) = CeilDiv(MaxTime - MinTime, Dt) + 1
          /\ lastWrite.ds.shot_id = <<lastWrite.shot_id>>
          /\ \A n \in DOMAIN lastWrite.ds.data :
                Len(lastWrite.ds.data[n]) = Len(TimeBase)
    /\ \A p \in Paths : stores[p].exists => stores[p].time = TimeBase

\* a second shot stored after the subsampler selected fewer points than the
\* time base holds, and not the points it selected for the first shot
C12_Witness ==
    /\ pc = "done"
    /\ Len(outcome) >= 2
    /\ IsOk(outcome[1])
    /\ IsOk(outcome[2])
    /\ outcome[1].picked # outcome[2].picked
    /\ Len(outcome[2].picked) < Len(TimeBase)
    /\ lastWrite.shot_id = outcome[2].shot_id
    /\ Len(EntryIds(stores[CurPath])) >= 2

----------------------------------------------------------------------------
(* Properties of the dashboard's rating export (SpecDash).                 *)

\* the cells of a row that name its frame
FrameCells(row) == <<row[2], row[3], row[4]>>

\* the row the export should hold for a reviewed frame
ReviewedRow(nav) ==
    <<ToString(nav.current_index), ToString(nav.frame.shot_id),
      ToString(nav.frame.time_point), ToString(nav.frame.radial_point),
      nav.selected[1], nav.selected[2], nav.selected[3]>>

\* C11: after any sequence of Next/Previous actions the export holds exactly
\* one row per reviewed frame, and the row of the frame just left records
\* its current_index, shot_id, time_point and radial_point with the labels
\* the reviewer had selected for emissivity, velocity and temperature; the
\* file holds every rating so far (it is rewritten whole).
C11_OneRowPerFrameWithSelectedLabels ==
    lastNav.called =>
        /\ csv # NoFile
        /\ Len(csv.rows) = Len(ratings)
        /\ \A i, j \in DOMAIN csv.rows :
              i # j => FrameCells(csv.rows[i]) # FrameCells(csv.rows[j])
        /\ csv.rows[Len(csv.rows)] = ReviewedRow(lastNav)

====
